---- MODULE Spec2Model ----
(***************************************************************************)
(* Model of src/src/server.ts: the patient directory, the prescription     *)
(* generator (generatePrescription) with its three await points, the       *)
(* past_prescriptions.txt log, and the two request surfaces (Express       *)
(* routes and the MCP CallTool handler).                                   *)
(*                                                                         *)
(* Strings that the code trims, tests for truthiness or interpolates are   *)
(* sequences of one-character strings.  Fixed messages are TLA+ strings.   *)
(***************************************************************************)
EXTENDS Naturals, Sequences, FiniteSets

VARIABLES patients, log, writer, req, extCalls, overlap

vars == <<patients, log, writer, req, extCalls, overlap>>

\* Number of requests of one run; request r is the r-th call made.
MaxReq == 2

Requests == 1..MaxReq

-----------------------------------------------------------------------------
(* JavaScript values                                                       *)

\* The value `undefined` (a missing JSON field, a missing arguments object).
Undefined == <<"undefined">>

\* JavaScript truthiness of an optional string: undefined and '' are falsy.
Truthy(v) == v # Undefined /\ v # <<>>

\* `${v}` in a template literal: undefined renders as the text "undefined".
Str(v) == IF v = Undefined THEN <<"u", "n", "d", "e", "f", "i", "n", "e", "d">> ELSE v

IsSpace(c) == c = " "

RECURSIVE TrimStart(_)
TrimStart(s) == IF s # <<>> /\ IsSpace(Head(s)) THEN TrimStart(Tail(s)) ELSE s

RECURSIVE TrimEnd(_)
TrimEnd(s) == IF s # <<>> /\ IsSpace(s[Len(s)]) THEN TrimEnd(SubSeq(s, 1, Len(s) - 1)) ELSE s

\* String.prototype.trim
Trim(s) == TrimEnd(TrimStart(s))

RECURSIVE Join(_, _)
\* Array.prototype.join(sep)
Join(items, sep) ==
  IF items = <<>> THEN <<>>
  ELSE IF Len(items) = 1 THEN <<items[1]>>
  ELSE <<items[1], sep>> \o Join(Tail(items), sep)

-----------------------------------------------------------------------------
(* Sample data                                                             *)

P1 == <<"p", "1">>
P2 == <<"p", "2">>
UnknownId == <<"z">>

\* What app/data/patients.json holds when it can be read and parsed.
PatientsFile ==
  << [id |-> P1, name |-> "Asha", age |-> 40, diagnosis |-> "flu",
      history |-> <<"penicillin allergy", "asthma">>],
     [id |-> P2, name |-> "Ravi", age |-> 7, diagnosis |-> "cough",
      history |-> <<>>] >>

\* patient_id values a caller sends: missing, empty, known, unknown.
PatientIds == {Undefined, <<>>, P1, UnknownId}

\* response.text values the generation service returns.
ExtTexts == {Undefined, <<" ", "x", " ">>, <<"x", " ", "x">>}

Args(id, symptoms, final) ==
  [patient_id |-> id, symptoms |-> symptoms, final_prescription |-> final]

\* The JSON bodies posted to /api/generate_prescription: the plain request,
\* an override (which is not trimmed), missing symptoms with an empty
\* override, an unknown patient_id and a missing patient_id.
HttpBodies ==
  { Args(P1, <<"x">>, Undefined),
    Args(P1, <<"x">>, <<"x", " ">>),
    Args(P1, Undefined, <<>>),
    Args(UnknownId, <<"x">>, Undefined),
    Args(Undefined, <<"x">>, <<"x", " ">>) }

\* The arguments objects given to the generate_prescription tool: the plain
\* request, empty symptoms, an unknown patient_id and an empty patient_id.
McpArguments ==
  { Args(P1, <<"x">>, Undefined),
    Args(P1, <<>>, Undefined),
    Args(UnknownId, <<"x">>, <<"x", " ">>),
    Args(<<>>, <<"x">>, Undefined) }

\* An arguments object that carries only patient_id.
IdArgs(id) == [patient_id |-> id, symptoms |-> Undefined, final_prescription |-> Undefined]

-----------------------------------------------------------------------------
(* Patient directory                                                       *)

\* loadPatients: the parsed file, or [] when reading or parsing fails.
LoadPatients(ok) == IF ok THEN PatientsFile ELSE <<>>

RECURSIVE FindPatientOrLast(_, _)
\* A lookup that falls back to the last record instead of reporting none.
FindPatientOrLast(ps, id) ==
  IF ps = <<>> THEN <<>>
  ELSE IF Head(ps).id = id \/ Len(ps) = 1 THEN <<Head(ps)>>
  ELSE FindPatientOrLast(Tail(ps), id)

RECURSIVE FindPatient(_, _)
\* patients.find(p => p.id === id): <<p>> for the first match, <<>> for none.
FindPatient(ps, id) ==
  IF ps = <<>> THEN <<>>
  ELSE IF Head(ps).id = id THEN <<Head(ps)>>
  ELSE FindPatient(Tail(ps), id)

-----------------------------------------------------------------------------
(* History log: past_prescriptions.txt as the sequence of appended lines   *)

\* fs.readFile(...) with the failure swallowed: the content, or '' on failure.
ReadHistoryFile(content, ok) == IF ok THEN content ELSE <<>>

\* The line generatePrescription writes.
LogLine(args, finalOutput) ==
  [patient |-> Str(args.patient_id), symptoms |-> Str(args.symptoms),
   prescription |-> Str(finalOutput)]

\* fs.writeFile in place of fs.appendFile: the line replaces the content.
WriteFile(content, line) == <<line>>

\* A write that puts the line at the start of the file.
PrependFile(content, line) == <<line>> \o content

\* fs.appendFile: the new content of the file.
AppendFile(content, line) == Append(content, line)

-----------------------------------------------------------------------------
(* Prompt builder and reconciliation                                       *)

\* generatePrompt: the interpolated slots of the template, in order.
GeneratePrompt(patient, symptoms, history) ==
  [age |-> patient.age, diagnosis |-> patient.diagnosis,
   history |-> Join(patient.history, ", "),
   symptoms |-> Str(symptoms),
   past |-> IF history # <<>> THEN <<"Past data:", history>> ELSE <<>>]

\* response.text || '' without the trim.
GeneratedUntrimmed(text) == IF text = Undefined THEN <<>> ELSE text

\* response.text?.trim() || ''
Generated(text) == IF text = Undefined THEN <<>> ELSE Trim(text)

\* req.final_prescription || generated
FinalOutput(final_prescription, generated) ==
  IF Truthy(final_prescription) THEN final_prescription ELSE generated

\* The value generatePrescription returns.
Result(generated, finalOutput, patient) ==
  [generated |-> generated, prescription |-> finalOutput, patient |-> patient]

-----------------------------------------------------------------------------
(* Replies of the two surfaces                                             *)

NoReply == [status |-> 0, tag |-> "none", msg |-> "", data |-> <<>>]

\* res.status(status).json(value)
HttpJson(status, value) == [status |-> status, tag |-> "json", msg |-> "", data |-> <<value>>]

\* res.status(status).json({ detail: msg })
HttpDetail(status, msg) == [status |-> status, tag |-> "detail", msg |-> msg, data |-> <<>>]

\* res.send(history || 'No history')
HttpHistory(history) ==
  IF history # <<>> THEN [status |-> 200, tag |-> "text", msg |-> "", data |-> <<history>>]
  ELSE [status |-> 200, tag |-> "text", msg |-> "No history", data |-> <<>>]

\* { content: [{ type: 'text', text: JSON.stringify(value, null, 2) }] }
McpJson(value) == [status |-> 0, tag |-> "json", msg |-> "", data |-> <<value>>]

\* { content: [{ type: 'text', text: literal }] }
McpText(literal) == [status |-> 0, tag |-> "text", msg |-> literal, data |-> <<>>]

\* { content: [{ type: 'text', text: `Error: ${err.message}` }] }
McpError(msg) == [status |-> 0, tag |-> "error", msg |-> msg, data |-> <<>>]

\* { content: [{ type: 'text', text: history || 'No history found.' }] }
McpHistory(history) ==
  IF history # <<>> THEN [status |-> 0, tag |-> "text", msg |-> "", data |-> <<history>>]
  ELSE McpText("No history found.")

\* Messages of the errors of the two external dependencies.
GenerationErrorMessage == "generateContent failed"
AppendErrorMessage == "appendFile failed"

-----------------------------------------------------------------------------
(* Requests                                                                *)

NoText == <<"none">>
NoPrompt == [age |-> 0, diagnosis |-> "", history |-> <<>>, symptoms |-> <<>>, past |-> <<>>]
NoPatient == <<>>

\* A request slot before its request arrives.
IdleRequest ==
  [surface |-> "none", op |-> "none", hasArgs |-> FALSE, args |-> IdArgs(Undefined),
   pc |-> "idle", patient |-> NoPatient, prompt |-> NoPrompt, readFailed |-> FALSE,
   text |-> NoText, generated |-> NoText, appendFailed |-> FALSE, reply |-> NoReply]

\* A request as its handler receives it.
NewRequest(surface, op, hasArgs, args) ==
  [IdleRequest EXCEPT !.surface = surface, !.op = op, !.hasArgs = hasArgs, !.args = args]

\* A handler that has sent its reply.
Replied(rq, reply) == [rq EXCEPT !.pc = "done", !.reply = reply]

\* The catch blocks of the two surfaces: an error thrown by the handler's
\* body becomes a 500 {detail} (Express) or an `Error: ` text (MCP).
CatchError(rq, msg) ==
  [rq EXCEPT !.pc = "done", !.patient = NoPatient, !.prompt = NoPrompt,
             !.readFailed = FALSE, !.text = NoText, !.generated = NoText,
             !.reply = IF rq.surface = "http" THEN HttpDetail(500, msg) ELSE McpError(msg)]

\* The reply that carries generatePrescription's return value.
ReplyResult(rq, result) ==
  [rq EXCEPT !.pc = "done", !.patient = NoPatient, !.generated = NoText,
             !.reply = IF rq.surface = "http" THEN HttpJson(200, result) ELSE McpJson(result)]

\* generatePrescription up to its first await: the lookup, then either the
\* throw or the read of past_prescriptions.txt being issued.
StartGenerate(rq, ps) ==
  LET found == FindPatient(ps, rq.args.patient_id) IN
  IF found = <<>> THEN CatchError(rq, "Invalid patient ID")
  ELSE [rq EXCEPT !.pc = "reading", !.patient = found]

\* The read has settled: the prompt is built and generateContent is called.
AfterRead(rq, content, ok) ==
  [rq EXCEPT !.pc = "calling", !.readFailed = ~ok,
             !.prompt = GeneratePrompt(rq.patient[1], rq.args.symptoms,
                                       ReadHistoryFile(content, ok))]

\* generateContent resolved with `text`: appendFile is issued.
AfterGenerateContent(rq, text) ==
  [rq EXCEPT !.pc = "appending", !.prompt = NoPrompt, !.readFailed = FALSE,
             !.text = text, !.generated = Generated(text)]

\* generateContent rejected and the generation is started over.
RetryGenerateContent(rq) == [rq EXCEPT !.pc = "reading", !.prompt = NoPrompt, !.readFailed = FALSE]

\* generateContent rejected: the error propagates to the surface.
OnGenerateContentError(rq) == CatchError(rq, GenerationErrorMessage)

\* A log line that records the generated text, not the reconciled one.
LineOfGenerated(rq) == LogLine(rq.args, rq.generated)

\* The line appended for a request: its id, symptoms and finalOutput.
LineFor(rq) == LogLine(rq.args, FinalOutput(rq.args.final_prescription, rq.generated))

\* appendFile resolved: the result is returned and sent.
AfterAppend(rq) ==
  ReplyResult(rq, Result(rq.generated,
                         FinalOutput(rq.args.final_prescription, rq.generated),
                         rq.patient[1]))

\* appendFile rejected, the rejection swallowed and the result sent.
SwallowAppendError(rq) == [AfterAppend(rq) EXCEPT !.appendFailed = TRUE]

\* appendFile rejected: the error propagates to the surface.
OnAppendError(rq) == [CatchError(rq, AppendErrorMessage) EXCEPT !.appendFailed = TRUE]

IsGenerate(rq) ==
  \/ rq.surface = "http" /\ rq.op = "POST /api/generate_prescription"
  \/ rq.surface = "mcp" /\ rq.op = "generate_prescription" /\ rq.hasArgs

-----------------------------------------------------------------------------
(* State                                                                   *)

TypeOK ==
  /\ patients \in {<<>>, PatientsFile}
  /\ Len(log) = Len(writer)
  /\ \A r \in Requests : req[r].pc \in {"idle", "reading", "calling", "appending", "done"}
  /\ extCalls \in [Requests -> Nat]
  /\ overlap \in BOOLEAN

\* After `await loadPatients()`: no request yet, the log file absent or empty.
Init ==
  /\ \E ok \in BOOLEAN : patients = LoadPatients(ok)
  /\ log = <<>>
  /\ writer = <<>>
  /\ req = [r \in Requests |-> IdleRequest]
  /\ extCalls = [r \in Requests |-> 0]
  /\ overlap = FALSE

\* Request r is the next call made: every earlier call has been made.
NextCall(r) ==
  /\ req[r].pc = "idle"
  /\ \A q \in Requests : q < r => req[q].pc # "idle"

\* The requests once request r has been handled as `done`.
Handled(r, done) == [req EXCEPT ![r] = done]

\* generatePrescription has been called and has neither returned nor thrown.
InFlight(rq) == rq.pc \in {"reading", "calling", "appending"}

\* Whether two generatePrescription calls have been in flight together,
\* once request r has been handled as `started`.
Overlapped(started) ==
  overlap \/ (InFlight(started) /\ \E q \in Requests : InFlight(req[q]))

-----------------------------------------------------------------------------
(* Express routes                                                          *)

HttpListPatients(r) ==
  /\ NextCall(r)
  /\ req' = Handled(r, Replied(NewRequest("http", "GET /api/patients", FALSE, IdArgs(Undefined)),
                               HttpJson(200, patients)))
  /\ UNCHANGED <<patients, log, writer, extCalls, overlap>>

HttpGetPatient(r) ==
  /\ NextCall(r)
  /\ \E id \in {P1, UnknownId} :
       LET found == FindPatient(patients, id)
           rq == NewRequest("http", "GET /api/patients/:patient_id", FALSE, IdArgs(id)) IN
       req' = Handled(r, Replied(rq, IF found = <<>> THEN HttpDetail(404, "Patient not found")
                                     ELSE HttpJson(200, found[1])))
  /\ UNCHANGED <<patients, log, writer, extCalls, overlap>>

HttpGetHistory(r) ==
  /\ NextCall(r)
  /\ \E ok \in BOOLEAN :
       req' = Handled(r, Replied(NewRequest("http", "GET /api/history", FALSE, IdArgs(Undefined)),
                                 HttpHistory(ReadHistoryFile(log, ok))))
  /\ UNCHANGED <<patients, log, writer, extCalls, overlap>>

HttpGeneratePrescription(r) ==
  /\ NextCall(r)
  /\ \E body \in HttpBodies :
       LET started == StartGenerate(NewRequest("http", "POST /api/generate_prescription",
                                               TRUE, body), patients) IN
       /\ req' = Handled(r, started)
       /\ overlap' = Overlapped(started)
  /\ UNCHANGED <<patients, log, writer, extCalls>>

-----------------------------------------------------------------------------
(* MCP CallTool handler                                                    *)

ToolNames ==
  {"get_all_patients", "get_patient_by_id", "generate_prescription",
   "get_prescription_history", "no_such_tool"}

\* if (!args) return 'Missing arguments', whatever the tool.
McpMissingArguments(r) ==
  /\ NextCall(r)
  /\ \E name \in ToolNames :
       req' = Handled(r, Replied(NewRequest("mcp", name, FALSE, IdArgs(Undefined)),
                                 McpText("Missing arguments")))
  /\ UNCHANGED <<patients, log, writer, extCalls, overlap>>

McpGetAllPatients(r) ==
  /\ NextCall(r)
  /\ req' = Handled(r, Replied(NewRequest("mcp", "get_all_patients", TRUE, IdArgs(Undefined)),
                               McpJson(patients)))
  /\ UNCHANGED <<patients, log, writer, extCalls, overlap>>

McpGetPatientById(r) ==
  /\ NextCall(r)
  /\ \E id \in PatientIds :
       LET found == FindPatient(patients, id)
           rq == NewRequest("mcp", "get_patient_by_id", TRUE, IdArgs(id)) IN
       req' = Handled(r, IF ~Truthy(id) THEN CatchError(rq, "patient_id is required")
                         ELSE IF found = <<>> THEN CatchError(rq, "Not found")
                         ELSE Replied(rq, McpJson(found[1])))
  /\ UNCHANGED <<patients, log, writer, extCalls, overlap>>

McpGeneratePrescription(r) ==
  /\ NextCall(r)
  /\ \E args \in McpArguments :
       LET started == StartGenerate(NewRequest("mcp", "generate_prescription", TRUE, args),
                                    patients) IN
       /\ req' = Handled(r, started)
       /\ overlap' = Overlapped(started)
  /\ UNCHANGED <<patients, log, writer, extCalls>>

McpGetPrescriptionHistory(r) ==
  /\ NextCall(r)
  /\ \E ok \in BOOLEAN :
       req' = Handled(r, Replied(NewRequest("mcp", "get_prescription_history", TRUE,
                                            IdArgs(Undefined)),
                                 McpHistory(ReadHistoryFile(log, ok))))
  /\ UNCHANGED <<patients, log, writer, extCalls, overlap>>

McpUnknownTool(r) ==
  /\ NextCall(r)
  /\ req' = Handled(r, CatchError(NewRequest("mcp", "no_such_tool", TRUE, IdArgs(Undefined)),
                                  "Unknown tool"))
  /\ UNCHANGED <<patients, log, writer, extCalls, overlap>>

-----------------------------------------------------------------------------
(* The await points of generatePrescription                                *)

\* history = await fs.readFile(...) settles; the external call is issued.
ReadHistory(r) ==
  /\ req[r].pc = "reading"
  /\ \E ok \in BOOLEAN : req' = [req EXCEPT ![r] = AfterRead(req[r], log, ok)]
  /\ extCalls' = [extCalls EXCEPT ![r] = @ + 1]
  /\ UNCHANGED <<patients, log, writer, overlap>>

\* await ai.models.generateContent(...) resolves.
GenerateContentReturns(r) ==
  /\ req[r].pc = "calling"
  /\ \E text \in ExtTexts : req' = [req EXCEPT ![r] = AfterGenerateContent(req[r], text)]
  /\ UNCHANGED <<patients, log, writer, extCalls, overlap>>

\* await ai.models.generateContent(...) rejects.
GenerateContentFails(r) ==
  /\ req[r].pc = "calling"
  /\ req' = [req EXCEPT ![r] = OnGenerateContentError(req[r])]
  /\ UNCHANGED <<patients, log, writer, extCalls, overlap>>

\* await fs.appendFile(...) resolves.
AppendCompletes(r) ==
  /\ req[r].pc = "appending"
  /\ log' = AppendFile(log, LineFor(req[r]))
  /\ writer' = Append(writer, r)
  /\ req' = [req EXCEPT ![r] = AfterAppend(req[r])]
  /\ UNCHANGED <<patients, extCalls, overlap>>

\* await fs.appendFile(...) rejects.
AppendFails(r) ==
  /\ req[r].pc = "appending"
  /\ req' = [req EXCEPT ![r] = OnAppendError(req[r])]
  /\ UNCHANGED <<patients, log, writer, extCalls, overlap>>

Next ==
  \E r \in Requests :
    \/ HttpListPatients(r)
    \/ HttpGetPatient(r)
    \/ HttpGetHistory(r)
    \/ HttpGeneratePrescription(r)
    \/ McpMissingArguments(r)
    \/ McpGetAllPatients(r)
    \/ McpGetPatientById(r)
    \/ McpGeneratePrescription(r)
    \/ McpGetPrescriptionHistory(r)
    \/ McpUnknownTool(r)
    \/ ReadHistory(r)
    \/ GenerateContentReturns(r)
    \/ GenerateContentFails(r)
    \/ AppendCompletes(r)
    \/ AppendFails(r)

Spec == Init /\ [][Next]_vars

-----------------------------------------------------------------------------
(* Vocabulary of the properties                                            *)

Writers == {writer[i] : i \in 1..Len(writer)}

Called(r) == req[r].pc # "idle"

Done(r) == req[r].pc = "done"

\* The request was a generatePrescription call.
Generation(r) == Called(r) /\ IsGenerate(req[r])

\* The reply carries a value: a JSON document or the raw log text.
CarriesValue(reply) == reply.data # <<>>

\* The reply reports a failure in its surface's error shape.
IsFailure(rq) ==
  \/ rq.surface = "http" /\ rq.reply.status >= 400 /\ rq.reply.tag = "detail"
  \/ rq.surface = "mcp" /\ rq.reply.tag = "error"

\* The generation returned {generated, prescription, patient} to its caller.
Succeeded(r) == Generation(r) /\ Done(r) /\ req[r].reply.tag = "json"

ResultOf(r) == req[r].reply.data[1]

\* No record of the directory has this id.
UnknownPatient(id) == \A i \in 1..Len(patients) : patients[i].id # id

IsPrefix(a, b) == Len(a) <= Len(b) /\ SubSeq(b, 1, Len(a)) = a

AllSpaces(s) == \A i \in 1..Len(s) : IsSpace(s[i])

\* g is t without its leading and trailing whitespace.
IsTrimOf(g, t) ==
  /\ \E i, j \in 0..Len(t) :
       /\ i + j <= Len(t)
       /\ AllSpaces(SubSeq(t, 1, i))
       /\ AllSpaces(SubSeq(t, Len(t) - j + 1, Len(t)))
       /\ g = SubSeq(t, i + 1, Len(t) - j)
  /\ g # <<>> => ~IsSpace(g[1]) /\ ~IsSpace(g[Len(g)])

-----------------------------------------------------------------------------
(* Claims                                                                  *)

\* C1: a generatePrescription request whose patient_id or symptoms is
\* missing or empty issues no external call, appends no log line and ends
\* in a failure reply.
C1_ValidationBeforeSideEffects ==
  \A r \in Requests :
    Generation(r) /\ (~Truthy(req[r].args.patient_id) \/ ~Truthy(req[r].args.symptoms))
      => /\ extCalls[r] = 0
         /\ r \notin Writers
         /\ Done(r) => IsFailure(req[r])

\* C2: a generatePrescription request whose patient_id matches no record of
\* the directory has failed with 'Invalid patient ID', has issued no
\* external call and has appended nothing to the log.
C2_UnknownPatientFailsLocally ==
  \A r \in Requests :
    Generation(r) /\ UnknownPatient(req[r].args.patient_id)
      => /\ Done(r)
         /\ IsFailure(req[r])
         /\ req[r].reply.msg = "Invalid patient ID"
         /\ extCalls[r] = 0
         /\ r \notin Writers

\* C2 witness: an unknown id is refused while the directory is loaded and
\* the log already holds an entry.
C2_Witness ==
  \E r \in Requests :
    /\ Generation(r) /\ Done(r)
    /\ req[r].args.patient_id = UnknownId
    /\ patients # <<>>
    /\ log # <<>>

\* C3: in every returned result, generated is the trimmed external output
\* ('' when there is none) whatever the override, and prescription is the
\* override when it is present and non-empty and generated otherwise.
C3_Reconciliation ==
  \A r \in Requests :
    Succeeded(r) =>
      LET final == req[r].args.final_prescription
          text == req[r].text IN
      /\ IF text = Undefined THEN ResultOf(r).generated = <<>>
         ELSE IsTrimOf(ResultOf(r).generated, text)
      /\ final # Undefined /\ final # <<>> => ResultOf(r).prescription = final
      /\ final = Undefined \/ final = <<>> => ResultOf(r).prescription = ResultOf(r).generated

\* C3 witness: a result whose override differs from the generated text,
\* which in turn differs from the untrimmed external output.
C3_Witness ==
  \E r \in Requests :
    /\ Succeeded(r)
    /\ Truthy(req[r].args.final_prescription)
    /\ ResultOf(r).prescription # ResultOf(r).generated
    /\ ResultOf(r).generated # req[r].text
    /\ ResultOf(r).generated # <<>>

\* The history a getHistory request was sent is a prefix of the log.
HistoryRepliesFromLog ==
  \A r \in Requests :
    /\ Done(r)
    /\ req[r].op \in {"GET /api/history", "get_prescription_history"}
    /\ CarriesValue(req[r].reply)
    => IsPrefix(req[r].reply.data[1], log)

\* Entry i of the log carries the patient id and symptoms of the generation
\* that appended it.
EntriesCarryTheirRequest ==
  \A i \in 1..Len(log) :
    /\ log[i].patient = Str(req[writer[i]].args.patient_id)
    /\ log[i].symptoms = Str(req[writer[i]].args.symptoms)

\* The log holds one entry per successful generation.
OneEntryPerSuccess ==
  /\ Len(log) = Cardinality({r \in Requests : Succeeded(r)})
  /\ Writers = {r \in Requests : Succeeded(r)}

\* C4 as claimed: the log holds exactly one entry per successful generation
\* and the i-th entry is that of the i-th call, overlapping or not.
C4_EntriesInCallOrder ==
  /\ OneEntryPerSuccess
  /\ EntriesCarryTheirRequest
  /\ \A i, j \in 1..Len(writer) : i < j => writer[i] < writer[j]

\* C4 amended: the log holds exactly one entry per successful generation,
\* each carrying its generation's patient id and symptoms, in the order the
\* appends completed; that is call order when no two generations overlapped.
C4_EntriesInAppendOrder ==
  /\ OneEntryPerSuccess
  /\ EntriesCarryTheirRequest
  /\ HistoryRepliesFromLog
  /\ ~overlap => \A i, j \in 1..Len(writer) : i < j => writer[i] < writer[j]

\* C4 witness: two overlapping generations succeeded, the later call first.
C4_Witness ==
  /\ Len(log) = 2
  /\ writer = <<2, 1>>
  /\ Succeeded(1) /\ Succeeded(2)

\* C5: every log entry was appended by exactly one generation, whose
\* external call returned, and records its patient id, its symptoms and the
\* prescription returned to its caller (the override when one was used,
\* else the generated text); a request that failed appended nothing.
C5_EntriesMatchResults ==
  /\ \A i \in 1..Len(log) :
       LET r == writer[i] IN
       /\ Succeeded(r)
       /\ extCalls[r] = 1
       /\ req[r].text \in ExtTexts
       /\ log[i].patient = Str(req[r].args.patient_id)
       /\ log[i].symptoms = Str(req[r].args.symptoms)
       /\ log[i].prescription = ResultOf(r).prescription
       /\ log[i].prescription =
            IF Truthy(req[r].args.final_prescription) THEN req[r].args.final_prescription
            ELSE ResultOf(r).generated
  /\ \A i, j \in 1..Len(writer) : i # j => writer[i] # writer[j]
  /\ \A r \in Requests : Done(r) /\ ~Succeeded(r) => r \notin Writers

\* C5 witness: an entry that records an override different from the text
\* generated for it, beside a request whose external call failed.
C5_Witness ==
  /\ \E i \in 1..Len(log) :
       /\ Truthy(req[writer[i]].args.final_prescription)
       /\ log[i].prescription # ResultOf(writer[i]).generated
  /\ \E r \in Requests : Done(r) /\ req[r].reply.msg = GenerationErrorMessage

\* C6: the log only grows at its end, one line at a time and only when a
\* generation's append completes; every other step leaves it unchanged.
C6_LogAppendOnly ==
  [][ /\ IsPrefix(log, log')
      /\ log' # log =>
           /\ Len(log') = Len(log) + 1
           /\ \E r \in Requests : req[r].pc = "appending" /\ req'[r].pc = "done"
      /\ (\E r \in Requests : req[r].pc = "idle" /\ req'[r].pc # "idle") => log' = log
    ]_vars

\* C6 witness: a second line was appended to a log that held one.
C6_Witness == Len(log) = 2

\* C7: the HTTP generate endpoint answers 200 with the result on success,
\* 400 when patient_id or symptoms is missing, 404 when the patient is
\* unknown, and 500 {detail} only when the external call or the append fails.
C7_HttpStatusMapping ==
  \A r \in Requests :
    Generation(r) /\ Done(r) /\ req[r].surface = "http" =>
      LET args == req[r].args
          reply == req[r].reply
          missing == ~Truthy(args.patient_id) \/ ~Truthy(args.symptoms) IN
      /\ reply.status \in {200, 400, 404, 500}
      /\ missing => reply.status = 400
      /\ ~missing /\ UnknownPatient(args.patient_id) => reply.status = 404
      /\ reply.status = 200 => reply.tag = "json" /\ ~missing
      /\ reply.status = 500 =>
           /\ reply.tag = "detail"
           /\ reply.msg \in {GenerationErrorMessage, AppendErrorMessage}

\* C8: no request issues more than one external generation call; a request
\* that reached the generation step has issued exactly one, also when the
\* call failed, and every other request has issued none.
C8_OneExternalCall ==
  \A r \in Requests :
    /\ extCalls[r] <= 1
    /\ req[r].pc \in {"idle", "reading"} => extCalls[r] = 0
    /\ req[r].pc \in {"calling", "appending"} => extCalls[r] = 1
    /\ Done(r) =>
         extCalls[r] = IF /\ Generation(r)
                          /\ ~UnknownPatient(req[r].args.patient_id)
                       THEN 1 ELSE 0

\* C8 witness: a request whose external call failed, beside one whose call
\* returned.
C8_Witness ==
  /\ \E r \in Requests :
       Done(r) /\ req[r].reply.msg = GenerationErrorMessage /\ extCalls[r] = 1
  /\ \E r \in Requests : Succeeded(r)

\* C9: every tool call returns one text payload that is the tool's result
\* or, when the operation fails, `Error: <message>`; the tools without
\* arguments return their result when called without an arguments object.
C9_ToolPayloads ==
  \A r \in Requests :
    Done(r) /\ req[r].surface = "mcp" =>
      LET reply == req[r].reply
          history == /\ reply.tag = "text"
                     /\ CarriesValue(reply) \/ reply.msg = "No history found."
      IN
      /\ \/ reply.tag = "json" /\ CarriesValue(reply)
         \/ history /\ req[r].op = "get_prescription_history"
         \/ reply.tag = "error"
      /\ req[r].op = "get_all_patients" => reply.tag = "json" /\ reply.data = <<patients>>
      /\ req[r].op = "get_prescription_history" => history

\* C10: a failed read of the log is swallowed (the prompt carries no past
\* data and the external call is issued all the same); a failed append after
\* a returned external call fails the whole call, the caller being sent the
\* surface's failure reply and no result.
C10_LogFailures ==
  \A r \in Requests :
    /\ req[r].readFailed =>
         /\ req[r].pc = "calling"
         /\ req[r].prompt.past = <<>>
         /\ extCalls[r] = 1
    /\ req[r].appendFailed =>
         /\ Done(r)
         /\ extCalls[r] = 1
         /\ req[r].text = NoText
         /\ IsFailure(req[r])
         /\ ~CarriesValue(req[r].reply)
         /\ req[r].reply.msg = AppendErrorMessage
         /\ r \notin Writers

\* C10 witness: one call in flight after a failed read of the log, another
\* ended by a failed append.
C10_Witness ==
  /\ \E r \in Requests : req[r].readFailed /\ req[r].pc = "calling"
  /\ \E r \in Requests : req[r].appendFailed /\ Done(r)

====
